---- MODULE Spec2Model ----
(***************************************************************************)
(* Model of store/generate-localized-screenshots.py: main() walks the      *)
(* translation table in order and, for every locale, copies the six        *)
(* English SVG documents into the locale's directory with the slot's title *)
(* and description anchors replaced by the locale's strings.               *)
(*                                                                         *)
(* A text string of the program is one atom of a document; a document is a *)
(* sequence of atoms, among them the delimiters ">" and "<".  The table is *)
(* cut down to two of its rows, kept in table order.                       *)
(***************************************************************************)
EXTENDS Integers, Sequences, FiniteSets, TLC

VARIABLES files, dirs, pc, lang, loop, i, content, log, runs, snap

vars == <<files, dirs, pc, lang, loop, i, content, log, runs, snap>>

\* Number of times the script is started again after a run ended.
MaxReruns == 1

GT == ">"
LT == "<"

(***************************************************************************)
(* The data                                                                *)
(***************************************************************************)

\* Rows "en-GB" and "id" of the table, in the order the dict holds them.
TRANSLATIONS ==
    [l \in {"en-GB", "id"} |->
        IF l = "en-GB"
        THEN << "WebView Tester", "Test WKWebView &amp; SafariVC instantly",
                "Built-in DevTools", "Console, Network, Storage and more",
                "Customise Settings", "Fine-tune options for precise testing",
                "WebView Capabilities", "Check API support and device info" >>
        ELSE << "Penguji WebView", "Uji WKWebView &amp; SafariVC secara instan",
                "Alat Pengembang Bawaan", "Console, Jaringan, Penyimpanan, dan lainnya",
                "Sesuaikan Pengaturan", "Sesuaikan opsi untuk pengujian yang presisi",
                "Kemampuan WebView", "Periksa dukungan API dan informasi perangkat" >>]

\* Iteration order of TRANSLATIONS.items(): insertion order of the dict.
LangOrder == << "en-GB", "id" >>

originals ==
    [title1 |-> "WebView Tester",
     desc1 |-> "Test WKWebView &amp; SafariVC instantly",
     title2 |-> "Built-in DevTools",
     desc2 |-> "Console, Network, Storage and more",
     title3 |-> "Customize Settings",
     desc3 |-> "Fine-tune options for precise testing",
     title_ipad3 |-> "WebView Capabilities",
     desc_ipad3 |-> "Check API support and device info"]

\* The tuple unpacking of line 343.
Texts(l) ==
    [title1 |-> TRANSLATIONS[l][1], desc1 |-> TRANSLATIONS[l][2],
     title2 |-> TRANSLATIONS[l][3], desc2 |-> TRANSLATIONS[l][4],
     title3 |-> TRANSLATIONS[l][5], desc3 |-> TRANSLATIONS[l][6],
     title_ipad3 |-> TRANSLATIONS[l][7], desc_ipad3 |-> TRANSLATIONS[l][8]]

\* The iPad loop placed before the iPhone loop.
LoopsSwapped == << "ipad", "iphone" >>

\* The two inner loops of main(), in the order they stand.
Loops == << "iphone", "ipad" >>

\* The iPad loop naming its files as the iPhone loop does.
FileNameFlat(lp, n) ==
    IF n = 1 THEN "1.svg" ELSE IF n = 2 THEN "2.svg" ELSE "3.svg"

\* f"en/{i}.svg" and f"en/ipad-{i}.svg"
FileName(lp, n) ==
    IF lp = "iphone"
    THEN (IF n = 1 THEN "1.svg" ELSE IF n = 2 THEN "2.svg" ELSE "3.svg")
    ELSE (IF n = 1 THEN "ipad-1.svg" ELSE IF n = 2 THEN "ipad-2.svg" ELSE "ipad-3.svg")

SrcDir == "en"

SrcFile(lp, n) == << SrcDir, FileName(lp, n) >>

\* The output written beside the sources.
DstDirSrc(l) == SrcDir

\* f"{lang}/..."
DstDir(l) == l

DstFile(l, lp, n) == << DstDir(l), FileName(lp, n) >>

(***************************************************************************)
(* str.replace and the if/elif chains                                      *)
(***************************************************************************)

\* f">{text}<"
Anchor(text) == << GT, text, LT >>

RECURSIVE ReplaceFirst(_, _, _)
\* s.replace(old, new, 1): the first occurrence only.
ReplaceFirst(s, old, new) ==
    IF Len(s) < Len(old) THEN s
    ELSE IF SubSeq(s, 1, Len(old)) = old
         THEN new \o SubSeq(s, Len(old) + 1, Len(s))
         ELSE << Head(s) >> \o ReplaceFirst(Tail(s), old, new)

RECURSIVE Replace(_, _, _)
\* s.replace(old, new): left to right, every non-overlapping occurrence.
Replace(s, old, new) ==
    IF Len(s) < Len(old) THEN s
    ELSE IF SubSeq(s, 1, Len(old)) = old
         THEN new \o Replace(SubSeq(s, Len(old) + 1, Len(s)), old, new)
         ELSE << Head(s) >> \o Replace(Tail(s), old, new)

\* The third branch of the iPad loop left as copied from the iPhone loop.
TitleKeyPhone(lp, n) ==
    IF n = 1 THEN "title1" ELSE IF n = 2 THEN "title2" ELSE "title3"

\* Which pair of keys the branch taken for (loop, i) names.
TitleKey(lp, n) ==
    IF n = 1 THEN "title1"
    ELSE IF n = 2 THEN "title2"
    ELSE IF lp = "iphone" THEN "title3" ELSE "title_ipad3"

DescKey(lp, n) ==
    IF n = 1 THEN "desc1"
    ELSE IF n = 2 THEN "desc2"
    ELSE IF lp = "iphone" THEN "desc3" ELSE "desc_ipad3"

\* The description replaced only where the title was found.
ReplaceTextsNested(c, l, lp, n) ==
    LET t == Replace(c, Anchor(originals[TitleKey(lp, n)]), Anchor(Texts(l)[TitleKey(lp, n)]))
    IN  IF t = c /\ Texts(l)[TitleKey(lp, n)] # originals[TitleKey(lp, n)]
        THEN c
        ELSE Replace(t, Anchor(originals[DescKey(lp, n)]), Anchor(Texts(l)[DescKey(lp, n)]))

\* The two replace calls of the branch, title first.
ReplaceTexts(c, l, lp, n) ==
    LET t == Replace(c, Anchor(originals[TitleKey(lp, n)]), Anchor(Texts(l)[TitleKey(lp, n)]))
    IN  Replace(t, Anchor(originals[DescKey(lp, n)]), Anchor(Texts(l)[DescKey(lp, n)]))

(***************************************************************************)
(* The English documents the run may find                                  *)
(***************************************************************************)

\* The six documents of the directory "en", each with the keys of the two
\* texts it shows and the keys of two texts it does not show.
Documents ==
    { << "1.svg", "title1", "desc1", "title2", "desc2" >>,
      << "2.svg", "title2", "desc2", "title3", "desc3" >>,
      << "3.svg", "title3", "desc3", "title_ipad3", "desc_ipad3" >>,
      << "ipad-1.svg", "title1", "desc1", "title2", "desc2" >>,
      << "ipad-2.svg", "title2", "desc2", "title_ipad3", "desc_ipad3" >>,
      << "ipad-3.svg", "title_ipad3", "desc_ipad3", "title3", "desc3" >> }

DocOf(name) == CHOOSE d \in Documents : d[1] = name

Shapes == { "both", "titleOnly", "descOnly", "none", "twice", "foreign" }

\* What a document of the directory "en" may hold: both anchors of its slot,
\* one of them beside the bare text of the other, neither, one twice, or one
\* beside an anchor of another slot.
SourceDoc(shape, name) ==
    LET d  == DocOf(name)
        t0 == originals[d[2]]
        d0 == originals[d[3]]
        ft == originals[d[4]]
    IN  CASE shape = "both"      -> << GT, t0, LT, GT, d0, LT >>
          [] shape = "titleOnly" -> << GT, t0, LT, d0 >>
          [] shape = "descOnly"  -> << t0, GT, d0, LT >>
          [] shape = "none"      -> << t0, LT, GT >>
          [] shape = "twice"     -> << GT, t0, LT, GT, t0, LT >>
          [] shape = "foreign"   -> << GT, ft, LT, GT, t0, LT >>

(***************************************************************************)
(* The run                                                                 *)
(***************************************************************************)

Init ==
    /\ \E shape \in Shapes :
         files = [p \in { << "en", d[1] >> : d \in Documents } |-> SourceDoc(shape, p[2])]
    /\ dirs = { "en" }
    /\ pc = "for_lang"
    /\ lang = 1
    /\ loop = 1
    /\ i = 1
    /\ content = << >>
    /\ log = << >>
    /\ runs = 0
    /\ snap = << >>

\* One entry of the trace of the run: a print or a call on a path.
Event(kind, p) == << kind, p[1], p[2] >>

\* The file opened in mode "a": c is added to what p holds.
PutAppend(fs, p, c) ==
    [q \in DOMAIN fs \cup {p} |->
        IF q = p THEN (IF p \in DOMAIN fs THEN fs[p] \o c ELSE c) ELSE fs[q]]

\* The content of path p becomes c; p is created when it is not there.
Put(fs, p, c) == [q \in DOMAIN fs \cup {p} |-> IF q = p THEN c ELSE fs[q]]

Lang == LangOrder[lang]
Loop == Loops[loop]

\* The error caught per locale: the run goes on with the next row.
RaiseSkip ==
    /\ pc' = "for_lang"
    /\ lang' = lang + 1
    /\ UNCHANGED << loop, i, content, runs, snap >>

\* An exception leaves main(): nothing catches it.
Raise ==
    /\ pc' = "raised"
    /\ UNCHANGED << lang, loop, i, content, runs, snap >>

\* Lines 340-346: next row of the table, print, os.makedirs(lang, exist_ok=True).
MakeDirs ==
    /\ pc = "for_lang"
    /\ lang <= Len(LangOrder)
    /\ dirs' = dirs \cup { DstDir(Lang) }
    /\ log' = log \o << << "print", Lang, "" >>, << "makedirs", DstDir(Lang), "" >> >>
    /\ pc' = "read"
    /\ loop' = 1
    /\ i' = 1
    /\ UNCHANGED << files, lang, content, runs, snap >>

MakeDirsFail ==
    /\ pc = "for_lang"
    /\ lang <= Len(LangOrder)
    /\ DstDir(Lang) \notin dirs
    /\ log' = Append(log, << "print", Lang, "" >>)
    /\ Raise
    /\ UNCHANGED << files, dirs >>

\* Lines 353-354 and 375-376.
ReadSrc ==
    /\ pc = "read"
    /\ SrcFile(Loop, i) \in DOMAIN files
    /\ content' = files[SrcFile(Loop, i)]
    /\ log' = Append(log, Event("read", SrcFile(Loop, i)))
    /\ pc' = "replace"
    /\ UNCHANGED << files, dirs, lang, loop, i, runs, snap >>

ReadSrcFail ==
    /\ pc = "read"
    /\ Raise
    /\ UNCHANGED << files, dirs, log >>

\* Lines 357-365 and 379-387.
ReplaceStep ==
    /\ pc = "replace"
    /\ content' = ReplaceTexts(content, Lang, Loop, i)
    /\ pc' = "open"
    /\ UNCHANGED << files, dirs, lang, loop, i, log, runs, snap >>

\* Lines 367 and 389: open(dst_file, "w") creates the file or truncates it.
OpenDst ==
    /\ pc = "open"
    /\ DstDir(Lang) \in dirs
    /\ files' = Put(files, DstFile(Lang, Loop, i), << >>)
    /\ log' = Append(log, Event("open", DstFile(Lang, Loop, i)))
    /\ pc' = "write"
    /\ UNCHANGED << dirs, lang, loop, i, content, runs, snap >>

OpenDstFail ==
    /\ pc = "open"
    /\ Raise
    /\ UNCHANGED << files, dirs, log >>

\* Lines 368 and 390, and the advance of the two inner loops and the outer one.
WriteDst ==
    /\ pc = "write"
    /\ files' = Put(files, DstFile(Lang, Loop, i), content)
    /\ log' = Append(log, Event("write", DstFile(Lang, Loop, i)))
    /\ IF i < 3
       THEN /\ i' = i + 1
            /\ pc' = "read"
            /\ UNCHANGED << loop, lang >>
       ELSE IF loop < Len(Loops)
            THEN /\ i' = 1
                 /\ loop' = loop + 1
                 /\ pc' = "read"
                 /\ UNCHANGED lang
            ELSE /\ i' = 1
                 /\ loop' = 1
                 /\ lang' = lang + 1
                 /\ pc' = "for_lang"
    /\ UNCHANGED << dirs, content, runs, snap >>

\* What a failed write may leave in the file: nothing, or a part; the first
\* half stands for the parts.
Partial(c) == { SubSeq(c, 1, n) : n \in { 0, Len(c) \div 2 } }

\* The write or the flush at close fails after a proper prefix reached the file.
WriteDstFail ==
    /\ pc = "write"
    /\ \E part \in Partial(content) :
         files' = Put(files, DstFile(Lang, Loop, i), part)
    /\ Raise
    /\ UNCHANGED << dirs, log >>

\* Lines 392-395: the table is exhausted, the summary is printed.
Finish ==
    /\ pc = "for_lang"
    /\ lang > Len(LangOrder)
    /\ log' = Append(log, << "print", "Done!", "" >>)
    /\ pc' = "done"
    /\ snap' = Append(snap, files)
    /\ UNCHANGED << files, dirs, lang, loop, i, content, runs >>

\* The script is started again on the file system the last run left.
Rerun ==
    /\ pc \in { "done", "raised" }
    /\ runs < MaxReruns
    /\ runs' = runs + 1
    /\ pc' = "for_lang"
    /\ lang' = 1
    /\ loop' = 1
    /\ i' = 1
    /\ content' = << >>
    /\ log' = << >>
    /\ UNCHANGED << files, dirs, snap >>

Next ==
    \/ MakeDirs
    \/ MakeDirsFail
    \/ ReadSrc
    \/ ReadSrcFail
    \/ ReplaceStep
    \/ OpenDst
    \/ OpenDstFail
    \/ WriteDst
    \/ WriteDstFail
    \/ Finish
    \/ Rerun

Spec == Init /\ [][Next]_vars

(***************************************************************************)
(* Vocabulary of the properties                                            *)
(***************************************************************************)

TableOrder == << "en-GB", "id" >>

FileOrder == << "1.svg", "2.svg", "3.svg", "ipad-1.svg", "ipad-2.svg", "ipad-3.svg" >>

FileNames == { FileOrder[n] : n \in 1..Len(FileOrder) }

\* Atom q of s is the text of an occurrence of the anchor >x<.
IsMid(s, q, x) ==
    /\ 1 < q
    /\ q < Len(s)
    /\ s[q - 1] = GT
    /\ s[q] = x
    /\ s[q + 1] = LT

HasAnchor(s, x) == \E q \in 1..Len(s) : IsMid(s, q, x)

\* s with the text of every anchor >t0< set to t and of every anchor >d0< set
\* to d, every other atom kept.
Subst(s, t0, t, d0, d) ==
    [q \in 1..Len(s) |->
        IF IsMid(s, q, t0) THEN t
        ELSE IF IsMid(s, q, d0) THEN d
        ELSE s[q]]

Source(d) == files[<< "en", d[1] >>]

\* What the document d of locale l is to hold.
Expected(l, d) ==
    Subst(Source(d), originals[d[2]], Texts(l)[d[2]], originals[d[3]], Texts(l)[d[3]])

Locales == { TableOrder[n] : n \in 1..Len(TableOrder) }

NamesIn(dir) == { p[2] : p \in { q \in DOMAIN files : q[1] = dir } }

IsPrefix(s, t) == Len(s) <= Len(t) /\ s = SubSeq(t, 1, Len(s))

C2_ExactlySixDocuments ==
    pc = "done" =>
        \A l \in Locales :
            /\ l \in dirs
            /\ NamesIn(l) = FileNames
            /\ Cardinality(NamesIn(l)) = 6

C2_Witness ==
    /\ pc = "done"
    /\ runs = 1
    /\ Len(snap) = 1
    /\ \A l \in Locales : Cardinality(NamesIn(l)) = 6

(***************************************************************************)
(* C3: a second complete run over unchanged sources leaves every file with *)
(* the content the first complete run left, and no other file.             *)
(***************************************************************************)
C3_Idempotent ==
    (pc = "done" /\ Len(snap) >= 2) =>
        /\ files = snap[Len(snap) - 1]
        /\ snap[Len(snap)] = snap[Len(snap) - 1]

C3_Witness ==
    /\ pc = "done"
    /\ Len(snap) = 2
    /\ files[<< "id", "1.svg" >>] # files[<< "en", "1.svg" >>]

(***************************************************************************)
(* C8: no locale of the table names the source directory, no step opens or *)
(* writes a file of the directory "en", and no step changes the content of *)
(* a source document.                                                      *)
(***************************************************************************)
C8_SourcesReadOnly ==
    /\ [](/\ \A l \in Locales : l # "en"
          /\ \A n \in 1..Len(log) : log[n][1] \in { "open", "write", "makedirs" } => log[n][2] # "en")
    /\ [][\A name \in FileNames :
            /\ << "en", name >> \in DOMAIN files'
            /\ files'[<< "en", name >>] = files[<< "en", name >>]]_vars

C8_Witness ==
    /\ pc = "done"
    /\ \E n \in 1..Len(log) : log[n] = << "write", "id", "ipad-3.svg" >>
    /\ files[<< "id", "1.svg" >>] # files[<< "en", "1.svg" >>]

RECURSIVE TraceOfFiles(_, _)
\* read, open, write of the files from the n-th on, for locale l.
TraceOfFiles(l, n) ==
    IF n > Len(FileOrder) THEN << >>
    ELSE << << "read", "en", FileOrder[n] >>,
            << "open", l, FileOrder[n] >>,
            << "write", l, FileOrder[n] >> >> \o TraceOfFiles(l, n + 1)

RECURSIVE TraceOfLocales(_)
TraceOfLocales(n) ==
    IF n > Len(TableOrder) THEN << >>
    ELSE << << "print", TableOrder[n], "" >>, << "makedirs", TableOrder[n], "" >> >>
            \o TraceOfFiles(TableOrder[n], 1) \o TraceOfLocales(n + 1)

\* The trace of a run that meets no failure.
FullTrace == Append(TraceOfLocales(1), << "print", "Done!", "" >>)

(***************************************************************************)
(* C10: the calls of a run are a prefix of: for each locale in table       *)
(* order, the six files in the order phone 1, 2, 3, tablet 1, 2, 3, each   *)
(* read before its output is opened and written; then the summary.  A run  *)
(* that is not over can always take a step that is not a failure, and it   *)
(* is over without failure exactly when the whole trace was made.          *)
(***************************************************************************)
C10_TableOrder ==
    /\ IsPrefix(log, FullTrace)
    /\ (pc = "done") <=> (log = FullTrace)
    /\ pc \notin { "done", "raised" } =>
         ENABLED (MakeDirs \/ ReadSrc \/ ReplaceStep \/ OpenDst \/ WriteDst \/ Finish)

C10_Witness ==
    /\ pc = "done"
    /\ log = FullTrace
    /\ Len(log) = 41

\* The paths whose write the present run has completed.
Written == { << log[n][2], log[n][3] >> : n \in { m \in 1..Len(log) : log[m][1] = "write" } }

Keys == { "title1", "desc1", "title2", "desc2", "title3", "desc3", "title_ipad3", "desc_ipad3" }

\* The file the run is working on, by the last call it made.
LastName == log[Len(log)][3]

Missing(s, d) == ~HasAnchor(s, originals[d[2]]) \/ ~HasAnchor(s, originals[d[3]])

(***************************************************************************)
(* C5: on a document that lacks a designated anchor the replace step       *)
(* raises nothing and leaves the content with the anchor that is there     *)
(* translated; the write of such a document, when it does not fail, puts   *)
(* that content in the output file and the run goes on to the next file or *)
(* the next locale.                                                        *)
(***************************************************************************)
C5_MissingAnchorIsNoOp ==
    [][/\ (pc = "replace" /\ Missing(content, DocOf(LastName))) =>
            /\ pc' = "open"
            /\ content' = Subst(content,
                                originals[DocOf(LastName)[2]], Texts(TableOrder[lang])[DocOf(LastName)[2]],
                                originals[DocOf(LastName)[3]], Texts(TableOrder[lang])[DocOf(LastName)[3]])
       /\ (pc = "write" /\ pc' # "raised" /\ Missing(Source(DocOf(LastName)), DocOf(LastName))) =>
            /\ files'[<< TableOrder[lang], LastName >>] = Expected(TableOrder[lang], DocOf(LastName))
            /\ pc' = IF LastName = "ipad-3.svg" THEN "for_lang" ELSE "read"
            /\ lang' = IF LastName = "ipad-3.svg" THEN lang + 1 ELSE lang
      ]_vars

C5_Witness ==
    /\ pc = "done"
    /\ \E d \in Documents :
         /\ HasAnchor(Source(d), originals[d[2]])
         /\ ~HasAnchor(Source(d), originals[d[3]])
         /\ files[<< "id", d[1] >>] = Expected("id", d)
         /\ files[<< "id", d[1] >>] # Source(d)

\* A step of a run that is not one of its calls succeeding.
FailStep ==
    /\ pc \in { "for_lang", "read", "open", "write" }
    /\ ~ /\ Len(log') > Len(log)
         /\ \/ log'[Len(log')][1] \in { "makedirs", "read", "open", "write" }
            \/ log'[Len(log')] = << "print", "Done!", "" >>

\* The state of a run that an I/O error ended at locale number lang.
AbortedState ==
    /\ \A n \in 1..(lang - 1) : \A name \in FileNames : << TableOrder[n], name >> \in Written
    /\ \A p \in Written : p \in DOMAIN files /\ files[p] = Expected(p[1], DocOf(p[2]))
    /\ \A n \in 1..Len(log) : \A m \in (lang + 1)..Len(TableOrder) : log[n][2] # TableOrder[m]
    /\ \A n \in 1..Len(log) : log[n] # << "print", "Done!", "" >>

(***************************************************************************)
(* C6: a failing call ends the run at once, in the locale it was in; the   *)
(* files written before it stay as they were written, no step of a run     *)
(* creates, changes or removes a file or a directory of another locale     *)
(* than the one it is in, nothing of a later locale is in the trace, and   *)
(* the summary is not printed: nothing follows but a new start.            *)
(***************************************************************************)
C6_AbortAtFailure ==
    /\ [](pc = "raised" => AbortedState)
    /\ [][/\ FailStep => (pc' = "raised" /\ lang' = lang /\ dirs' = dirs /\ DOMAIN files' = DOMAIN files)
          /\ pc = "raised" => (pc' = "for_lang" /\ runs' = runs + 1 /\ files' = files /\ log' = << >>)
          /\ DOMAIN files \subseteq DOMAIN files'
          /\ \A p \in DOMAIN files' :
               (p \notin DOMAIN files \/ files'[p] # files[p]) => p[1] = TableOrder[lang]
          /\ \A dir \in dirs' \ dirs : dir = TableOrder[lang]
         ]_vars

C6_Witness ==
    /\ pc = "raised"
    /\ lang = 2
    /\ << "id", "3.svg" >> \in Written
    /\ << "id", "ipad-1.svg" >> \in DOMAIN files
    /\ files[<< "id", "ipad-1.svg" >>] # Expected("id", DocOf("ipad-1.svg"))

(***************************************************************************)
(* C7 as stated: an output file that exists holds its complete content.    *)
(***************************************************************************)
C7_NeverTruncated ==
    \A l \in Locales : \A d \in Documents :
        << l, d[1] >> \in DOMAIN files => files[<< l, d[1] >>] = Expected(l, d)

(***************************************************************************)
(* C7 amended: the content is complete in memory before the output file is *)
(* opened; an output file that exists holds a prefix of its complete       *)
(* content, the whole of it once the present run has written it, and in a  *)
(* first run less than it only from its opening to the end of its write or *)
(* to the failure of that write.                                           *)
(***************************************************************************)
C7_PrefixUntilWritten ==
    /\ pc \in { "open", "write" } => content = Expected(TableOrder[lang], DocOf(LastName))
    /\ \A l \in Locales : \A d \in Documents :
         << l, d[1] >> \in DOMAIN files =>
            /\ IsPrefix(files[<< l, d[1] >>], Expected(l, d))
            /\ << l, d[1] >> \in Written => files[<< l, d[1] >>] = Expected(l, d)
            /\ (runs = 0 /\ files[<< l, d[1] >>] # Expected(l, d)) =>
                  /\ pc \in { "write", "raised" }
                  /\ log[Len(log)] = << "open", l, d[1] >>

C7_Witness ==
    /\ pc = "raised"
    /\ \E l \in Locales : \E d \in Documents :
         /\ << l, d[1] >> \in DOMAIN files
         /\ files[<< l, d[1] >>] # << >>
         /\ files[<< l, d[1] >>] # Expected(l, d)

(***************************************************************************)
(* C9: in every written output the text of an anchor of the document's own *)
(* pair is the locale's text for that key and the text of an anchor of any *)
(* other key is the source's; the tablet's third document takes the pair   *)
(* (title_ipad3, desc_ipad3) and never the texts of (title3, desc3).       *)
(***************************************************************************)
C9_OwnPairOnly ==
    \A p \in Written :
        LET d == DocOf(p[2])
            s == Source(d)
            o == files[p]
        IN  /\ \A q \in 1..Len(s) : \A key \in Keys :
                 IsMid(s, q, originals[key]) =>
                    o[q] = IF key \in { d[2], d[3] } THEN Texts(p[1])[key] ELSE s[q]
            /\ p[2] = "ipad-3.svg" =>
                 /\ { d[2], d[3] } = { "title_ipad3", "desc_ipad3" }
                 /\ \A q \in 1..Len(s) :
                      /\ IsMid(s, q, originals.title_ipad3) =>
                            (o[q] = Texts(p[1]).title_ipad3 /\ o[q] # Texts(p[1]).title3)
                      /\ IsMid(s, q, originals.desc_ipad3) =>
                            (o[q] = Texts(p[1]).desc_ipad3 /\ o[q] # Texts(p[1]).desc3)

C9_Witness ==
    /\ << "id", "ipad-3.svg" >> \in Written
    /\ << "id", "3.svg" >> \in Written
    /\ HasAnchor(Source(DocOf("ipad-3.svg")), originals.title3)
    /\ HasAnchor(files[<< "id", "ipad-3.svg" >>], originals.title3)
    /\ HasAnchor(files[<< "id", "ipad-3.svg" >>], Texts("id").title_ipad3)
    /\ HasAnchor(files[<< "id", "3.svg" >>], Texts("id").title3)
    /\ HasAnchor(files[<< "id", "3.svg" >>], originals.title_ipad3)

====
